---- MODULE Spec2Model ----
(***************************************************************************)
(* A model of ashwin-fetch (src/src/main.rs): the duration formatter, the  *)
(* CPU aggregator, the GPU enumerator, the report composer and renderer,   *)
(* and the control flow of main.                                           *)
(*                                                                         *)
(* Text is modelled as a sequence of one-character strings, so that        *)
(* formatting (integer to decimal digits, padding, concatenation) is       *)
(* computed and can be inspected character by character.  An f64 is        *)
(* modelled as an exact fraction in lowest terms.                          *)
(***************************************************************************)
EXTENDS Integers, Sequences, FiniteSets, TLC

VARIABLES
    pc,             \* position in main, or in the function under test
    supported,      \* sysinfo::IS_SUPPORTED_SYSTEM of the build
    sys,            \* the sysinfo::System object of main
    events,         \* the calls main has made to its collaborators, in order
    output_info,    \* the OutputInfo built by main
    stdout,         \* the lines written to standard output, in order
    exit_code,      \* the ExitCode main returned, in a sequence (empty while it runs)
    unix_time,      \* argument of convert_unix_to_human_string
    human_string,   \* result of convert_unix_to_human_string
    cpus,           \* sys.cpus() as read by get_cpu_info
    cpu_info_map,   \* result of get_cpu_info
    adapters,       \* instance.enumerate_adapters() as read by get_gpu_info
    gpu_infos       \* result of get_gpu_info

vars == <<pc, supported, sys, events, output_info, stdout, exit_code,
          unix_time, human_string, cpus, cpu_info_map, adapters, gpu_infos>>

mainVars == <<supported, sys, events, output_info, stdout, exit_code>>
uptimeVars == <<unix_time, human_string>>
cpuVars == <<cpus, cpu_info_map>>
gpuVars == <<adapters, gpu_infos>>

\* The value of a variable that holds nothing yet.
None == "none"
\* exit_code holds the statuses main has returned: none while it runs.
NoExit == <<>>

----------------------------------------------------------------------------
(* Bounds of the model. *)

MaxDays == 11
MaxCpus == 3
MaxAdapters == 3

----------------------------------------------------------------------------
(* Program constants. *)

LOGO_HEIGHT == 9
LOGO_WIDTH == 32
LOGO == <<
    <<" "," "," "," "," "," "," ",":","#","."," "," "," "," "," "," "," "," "," "," "," "," "," "," "," "," "," "," "," "," "," "," ">>,
    <<" "," "," "," "," "," "," ",":","#","-",":","*","*","*","*","*","*","*","*","*","*","*","*","*","*","*","*","+"," "," "," "," ">>,
    <<" "," "," "," "," "," "," "," "," ","-",":",":",":",":",":",":",":",":",".",".",".",".",".",".",".",":",":",":"," "," "," "," ">>,
    <<" "," "," ",".","#","*"," "," "," "," "," "," "," "," "," "," "," "," "," "," "," ","-","*","*","=",":","."," "," "," "," "," ">>,
    <<" "," "," "," ","#","-",":",":"," "," "," "," "," "," "," "," "," "," "," "," ","=","%","%","=",":","."," "," "," "," "," "," ">>,
    <<" "," "," "," "," ","-","-",":",":","."," "," "," "," "," "," "," "," ",":","*","%","#",":",":"," "," "," "," "," "," "," "," ">>,
    <<" "," "," "," "," "," "," ","-",":",":",":","."," "," "," "," ",".","=","%","%","-",":"," "," "," "," "," "," "," "," "," "," ">>,
    <<" "," "," "," "," "," "," "," "," ",":",":",":","=","#","#","#","#","#","#",":","."," "," "," "," "," "," "," "," "," "," "," ">>,
    <<" "," "," "," "," "," "," "," "," "," ",".",":",":",":",":",":",":",".","."," "," "," "," "," "," "," "," "," "," "," "," "," ">>
>>

----------------------------------------------------------------------------
(* Text: format!, Display for integers, str::repeat, String::len. *)

DigitChars == <<"0", "1", "2", "3", "4", "5", "6", "7", "8", "9">>

RECURSIVE NatDigits(_)
NatDigits(n) ==
    IF n < 10 THEN <<DigitChars[n + 1]>>
    ELSE NatDigits(n \div 10) \o <<DigitChars[(n % 10) + 1]>>

\* Display of an integer, as format!("{}", n) writes it.
Display(n) == IF n < 0 THEN <<"-">> \o NatDigits(0 - n) ELSE NatDigits(n)

\* str::repeat: n copies of the text s.
RECURSIVE Repeat(_, _)
Repeat(s, n) == IF n <= 0 THEN <<>> ELSE s \o Repeat(s, n - 1)

\* format!("{:c>w}", text): the text right-aligned in width w, filled with c.
PadLeft(text, w, c) ==
    IF Len(text) >= w THEN text ELSE Repeat(<<c>>, w - Len(text)) \o text

Contains(text, c) == \E i \in 1..Len(text) : text[i] = c
EndsWith(text, c) == Len(text) > 0 /\ text[Len(text)] = c

\* Truncating division and remainder of i64 (Rust's / and %).
TruncDiv(a, b) == IF a >= 0 THEN a \div b ELSE 0 - ((0 - a) \div b)
TruncRem(a, b) == a - b * TruncDiv(a, b)

----------------------------------------------------------------------------
(* convert_unix_to_human_string *)

\* chrono: Duration::num_days, num_hours, num_minutes of Duration::seconds(s).
num_days(seconds) == TruncDiv(seconds, 86400)
num_hours(seconds) == TruncDiv(seconds, 3600)
\* A variant of num_minutes that rounds to the nearest minute.
num_minutes_rounded(seconds) == TruncDiv(seconds + 30, 60)

num_minutes(seconds) == TruncDiv(seconds, 60)

\* A variant of convert_unix_to_human_string that tests the hours before the
\* days.
convert_hours_tested_first(t) ==
    LET days == num_days(t)
        hours == TruncRem(num_hours(t), 24)
        minutes == TruncRem(num_minutes(t), 60)
    IN  IF hours > 0
        THEN Display(hours) \o <<"h", " ">> \o Display(minutes) \o <<"m">>
        ELSE IF days > 0
        THEN Display(days) \o <<"d", " ">> \o Display(hours) \o <<"h", " ">>
             \o Display(minutes) \o <<"m">>
        ELSE Display(minutes) \o <<"m">>

convert_unix_to_human_string(t) ==
    LET days == num_days(t)
        hours == TruncRem(num_hours(t), 24)
        minutes == TruncRem(num_minutes(t), 60)
    IN  IF days > 0
        THEN Display(days) \o <<"d", " ">> \o Display(hours) \o <<"h", " ">>
             \o Display(minutes) \o <<"m">>
        ELSE IF hours > 0
        THEN Display(hours) \o <<"h", " ">> \o Display(minutes) \o <<"m">>
        ELSE Display(minutes) \o <<"m">>

\* The uptimes the formatter is applied to: every minute of MaxDays + 1 days,
\* at several offsets of seconds within the minute.
UptimeInputs ==
    { d * 86400 + h * 3600 + m * 60 + s :
        d \in 0..MaxDays, h \in 0..23, m \in 0..59, s \in {0, 1, 5, 59} }

InitUptime ==
    /\ pc = "call"
    /\ unix_time \in UptimeInputs
    /\ human_string = None
    /\ supported = None /\ sys = None /\ events = <<>> /\ output_info = None
    /\ stdout = <<>> /\ exit_code = NoExit
    /\ cpus = None /\ cpu_info_map = None
    /\ adapters = None /\ gpu_infos = None

CallConvertUnixToHumanString ==
    /\ pc = "call"
    /\ human_string' = convert_unix_to_human_string(unix_time)
    /\ pc' = "ret"
    /\ UNCHANGED <<unix_time, mainVars, cpuVars, gpuVars>>

NextUptime == CallConvertUnixToHumanString

SpecUptime == InitUptime /\ [][NextUptime]_vars

----------------------------------------------------------------------------
(* Claims about convert_unix_to_human_string. *)

Returned == pc = "ret"

\* The three forms of the result, recognised from its characters alone:
\* "<digits>d <digits>h <digits>m", "<digits>h <digits>m", "<digits>m".
IsDigits(text) ==
    /\ Len(text) > 0
    /\ \A i \in 1..Len(text) : \E d \in 1..10 : text[i] = DigitChars[d]

\* The position of the first character c of the text, 0 when there is none.
IndexOf(text, c) ==
    IF Contains(text, c)
    THEN CHOOSE i \in 1..Len(text) :
            text[i] = c /\ \A j \in 1..(i - 1) : text[j] # c
    ELSE 0

\* The texts between the spaces of a text.
RECURSIVE SplitOnSpace(_)
SplitOnSpace(text) ==
    LET i == IndexOf(text, " ")
    IN  IF i = 0 THEN <<text>>
        ELSE <<SubSeq(text, 1, i - 1)>>
             \o SplitOnSpace(SubSeq(text, i + 1, Len(text)))

\* A word "<digits><unit>": its unit and its digits.
UnitOf(word) == word[Len(word)]
DigitsOf(word) == SubSeq(word, 1, Len(word) - 1)
IsField(word, unit) ==
    Len(word) >= 2 /\ UnitOf(word) = unit /\ IsDigits(DigitsOf(word))

FormDHM(text) ==
    LET w == SplitOnSpace(text)
    IN  Len(w) = 3 /\ IsField(w[1], "d") /\ IsField(w[2], "h") /\ IsField(w[3], "m")
FormHM(text) ==
    LET w == SplitOnSpace(text)
    IN  Len(w) = 2 /\ IsField(w[1], "h") /\ IsField(w[2], "m")
FormM(text) ==
    LET w == SplitOnSpace(text)
    IN  Len(w) = 1 /\ IsField(w[1], "m")

\* The number a text of decimal digits denotes.
DigitValue(c) == (CHOOSE d \in 1..10 : DigitChars[d] = c) - 1
RECURSIVE ParseNat(_)
ParseNat(digits) ==
    IF Len(digits) = 0 THEN 0
    ELSE 10 * ParseNat(SubSeq(digits, 1, Len(digits) - 1))
         + DigitValue(digits[Len(digits)])

\* The numbers printed in a result, in the order printed.
PrintedNumbers(text) ==
    LET w == SplitOnSpace(text)
    IN  [i \in 1..Len(w) |-> ParseNat(DigitsOf(w[i]))]

\* C1: the result contains "d" iff s >= 86400, contains "h" iff
\* (s mod 86400) >= 3600 or s >= 86400, and always ends in "m"; it has
\* exactly one of the three forms, the first of d-h-m, h-m, m that applies.
C1_FormSelection ==
    Returned =>
        /\ Contains(human_string, "d") <=> unix_time >= 86400
        /\ Contains(human_string, "h") <=>
               ((unix_time % 86400) >= 3600 \/ unix_time >= 86400)
        /\ EndsWith(human_string, "m")
        /\ FormDHM(human_string) <=> unix_time >= 86400
        /\ FormHM(human_string) <=> (unix_time < 86400 /\ unix_time >= 3600)
        /\ FormM(human_string) <=> unix_time < 3600

\* A result of more than a day whose hours and minutes are both zero: the
\* d-h-m form is chosen although the later tests would fail.
C1_Witness ==
    /\ Returned
    /\ unix_time = 2 * 86400 + 59
    /\ human_string = <<"2", "d", " ", "0", "h", " ", "0", "m">>

\* C2: the numbers printed are days = floor(s/86400), hours = the whole
\* hours of the remainder of a day, minutes = the whole minutes of the
\* remainder of an hour, the seconds dropped; 0 gives "0m", 65 gives "1m",
\* 3661 gives "1h 1m", 90065 gives "1d 1h 1m".
C2_Decomposition ==
    Returned =>
        LET d == unix_time \div 86400
            h == (unix_time % 86400) \div 3600
            m == (unix_time % 3600) \div 60
            printed == PrintedNumbers(human_string)
        IN  /\ d > 0 => printed = <<d, h, m>>
            /\ (d = 0 /\ h > 0) => printed = <<h, m>>
            /\ (d = 0 /\ h = 0) => printed = <<m>>
            /\ h = (unix_time \div 3600) % 24
            /\ m = (unix_time \div 60) % 60
            /\ unix_time = 0 => human_string = <<"0", "m">>
            /\ unix_time = 65 => human_string = <<"1", "m">>
            /\ unix_time = 3661 => human_string = <<"1", "h", " ", "1", "m">>
            /\ unix_time = 90065 =>
                   human_string = <<"1", "d", " ", "1", "h", " ", "1", "m">>

\* A result with two-digit days, hours and minutes, the seconds dropped.
C2_Witness ==
    /\ Returned
    /\ unix_time = 10 * 86400 + 23 * 3600 + 59 * 60 + 59
    /\ PrintedNumbers(human_string) = <<10, 23, 59>>

----------------------------------------------------------------------------
(* f64 arithmetic, on exact fractions in lowest terms. *)

RECURSIVE GCD(_, _)
GCD(a, b) == IF b = 0 THEN a ELSE GCD(b, a % b)

Fraction(n, d) ==
    LET g == GCD(n, d)
    IN  IF n = 0 THEN [num |-> 0, den |-> 1] ELSE [num |-> n \div g, den |-> d \div g]

\* `x as f64` of an integer or of an f32.
F64(n) == Fraction(n, 1)
FAdd(x, y) == Fraction(x.num * y.den + y.num * x.den, x.den * y.den)
FDiv(x, y) == Fraction(x.num * y.den, x.den * y.num)
FGt(x, y) == x.num * y.den > y.num * x.den

----------------------------------------------------------------------------
(* get_cpu_info *)

\* HashMap::entry(key).or_insert(default): the map with the key present.
EntryOrInsert(map, key, default) ==
    IF key \in DOMAIN map THEN map
    ELSE [k \in DOMAIN map \cup {key} |-> IF k = key THEN default ELSE map[k]]

\* A variant of AccumulateCpu whose new entry starts at one core.
AccumulateCpuFromOne(map, cpu) ==
    LET with == EntryOrInsert(map, cpu.brand,
                    [num_cores |-> 1, avg_usage |-> F64(0),
                     max_frequency_mhz |-> F64(0)])
        entry == with[cpu.brand]
        updated ==
            [num_cores |-> entry.num_cores + 1,
             avg_usage |-> FAdd(entry.avg_usage, F64(cpu.cpu_usage)),
             max_frequency_mhz |->
                IF FGt(F64(cpu.frequency), entry.max_frequency_mhz)
                THEN F64(cpu.frequency)
                ELSE entry.max_frequency_mhz]
    IN  [with EXCEPT ![cpu.brand] = updated]

\* One pass of the first loop: the core's entry is found or created, counted,
\* its usage added to the running sum and its frequency to the running maximum.
AccumulateCpu(map, cpu) ==
    LET with == EntryOrInsert(map, cpu.brand,
                    [num_cores |-> 0, avg_usage |-> F64(0),
                     max_frequency_mhz |-> F64(0)])
        entry == with[cpu.brand]
        updated ==
            [num_cores |-> entry.num_cores + 1,
             avg_usage |-> FAdd(entry.avg_usage, F64(cpu.cpu_usage)),
             max_frequency_mhz |->
                IF FGt(F64(cpu.frequency), entry.max_frequency_mhz)
                THEN F64(cpu.frequency)
                ELSE entry.max_frequency_mhz]
    IN  [with EXCEPT ![cpu.brand] = updated]

RECURSIVE AccumulateCpus(_, _)
AccumulateCpus(map, rest) ==
    IF rest = <<>> THEN map
    ELSE AccumulateCpus(AccumulateCpu(map, Head(rest)), Tail(rest))

\* A variant of AverageUsage that leaves the running sums undivided.
AverageUsageUndivided(map) == map

\* The second loop: every running sum is divided by its entry's core count.
AverageUsage(map) ==
    [k \in DOMAIN map |->
        [map[k] EXCEPT !.avg_usage = FDiv(@, F64(map[k].num_cores))]]

EmptyMap == [k \in {} |-> None]

get_cpu_info(sys_cpus) == AverageUsage(AccumulateCpus(EmptyMap, sys_cpus))

\* Sequences of at most n elements of a set.
RECURSIVE SeqsOfLen(_, _)
SeqsOfLen(S, n) ==
    IF n = 0 THEN {<<>>}
    ELSE { Append(s, x) : s \in SeqsOfLen(S, n - 1), x \in S }
SeqsUpTo(S, n) == UNION { SeqsOfLen(S, k) : k \in 0..n }

\* The cores offered to the aggregator: three brands, two of which differ only
\* in the case of a letter; usage in percent; frequency in MHz.
Brands == { <<"M", "x">>, <<"M", "X">>, <<"Q">> }
CpuSamples ==
    [brand : Brands, cpu_usage : {25, 100}, frequency : {2400, 3000}]
CpuInputs == SeqsUpTo(CpuSamples, MaxCpus)

InitCpu ==
    /\ pc = "call"
    /\ cpus \in CpuInputs
    /\ cpu_info_map = None
    /\ supported = None /\ sys = None /\ events = <<>> /\ output_info = None
    /\ stdout = <<>> /\ exit_code = NoExit
    /\ unix_time = None /\ human_string = None
    /\ adapters = None /\ gpu_infos = None

CallGetCpuInfo ==
    /\ pc = "call"
    /\ cpu_info_map' = get_cpu_info(cpus)
    /\ pc' = "ret"
    /\ UNCHANGED <<cpus, mainVars, uptimeVars, gpuVars>>

NextCpu == CallGetCpuInfo

SpecCpu == InitCpu /\ [][NextCpu]_vars

----------------------------------------------------------------------------
(* Claims about get_cpu_info. *)

\* The sum of the values of a function over a finite subset of its domain.
RECURSIVE SumOver(_, _)
SumOver(S, f) ==
    IF S = {} THEN 0
    ELSE LET x == CHOOSE y \in S : TRUE IN f[x] + SumOver(S \ {x}, f)

\* The positions of the input whose core has the given brand.
CoresOf(brand) == { i \in 1..Len(cpus) : cpus[i].brand = brand }

\* C3: the core counts of the groups add up to the number of cores read; no
\* cores give the empty map; every group has at least one core.
C3_CoreCountPreserved ==
    Returned =>
        LET cores == [k \in DOMAIN cpu_info_map |-> cpu_info_map[k].num_cores]
        IN  /\ SumOver(DOMAIN cpu_info_map, cores) = Len(cpus)
            /\ cpus = <<>> => cpu_info_map = EmptyMap
            /\ \A k \in DOMAIN cpu_info_map : cpu_info_map[k].num_cores >= 1

\* Three cores of two brands: groups of two cores and of one.
C3_Witness ==
    /\ Returned
    /\ Len(cpus) = 3
    /\ Cardinality(DOMAIN cpu_info_map) = 2
    /\ \E k \in DOMAIN cpu_info_map : cpu_info_map[k].num_cores = 2

\* C4: one group per distinct exact brand; a group's avg_usage is the sum of
\* its cores' usage divided by its core count, its max_frequency_mhz the
\* largest of its cores' frequencies; a group of one core has that core's
\* usage as its avg_usage.
C4_GroupContents ==
    Returned =>
        /\ DOMAIN cpu_info_map = { cpus[i].brand : i \in 1..Len(cpus) }
        /\ \A k \in DOMAIN cpu_info_map :
            LET group == cpu_info_map[k]
                usage == [i \in 1..Len(cpus) |-> cpus[i].cpu_usage]
                total == SumOver(CoresOf(k), usage)
            IN  /\ group.avg_usage.num * group.num_cores
                       = total * group.avg_usage.den
                /\ group.avg_usage.den > 0
                /\ \E i \in CoresOf(k) :
                       group.max_frequency_mhz = F64(cpus[i].frequency)
                /\ \A i \in CoresOf(k) :
                       ~FGt(F64(cpus[i].frequency), group.max_frequency_mhz)
                /\ \A i \in CoresOf(k) :
                       CoresOf(k) = {i} => group.avg_usage = F64(cpus[i].cpu_usage)

\* Brands that differ only in case are grouped apart, and an average that is
\* no whole number is computed: usages 25, 100, 100 of one brand.
C4_Witness ==
    /\ Returned
    /\ { <<"M", "x">>, <<"M", "X">> } \subseteq DOMAIN cpu_info_map
    /\ cpu_info_map[<<"M", "x">>].num_cores = 2
    /\ cpu_info_map[<<"M", "x">>].avg_usage = [num |-> 125, den |-> 2]
    /\ cpu_info_map[<<"M", "X">>].num_cores = 1

----------------------------------------------------------------------------
(* get_gpu_info *)

IntegratedSuffix == <<" ","(","I","n","t","e","g","r","a","t","e","d"," ","G","P","U",")">>
DiscreteSuffix == <<" ","(","D","i","s","c","r","e","t","e"," ","G","P","U",")">>
VirtualSuffix == <<" ","(","V","i","r","t","u","a","l"," ","G","P","U",")">>
SoftwareSuffix == <<" ","(","S","o","f","t","w","a","r","e"," ","R","a","s","t","e","r","i","z","e","r",")">>
OtherSuffix == <<" ","(","u","n","k","n","o","w","n"," ","g","p","u"," ","t","y","p","e",")">>

\* wgpu::DeviceType
DeviceTypes == {"IntegratedGpu", "DiscreteGpu", "VirtualGpu", "Cpu", "Other"}

\* The match on info.device_type that names a GPU.
gpu_name(info) ==
    CASE info.device_type = "IntegratedGpu" -> info.name \o IntegratedSuffix
      [] info.device_type = "DiscreteGpu" -> info.name \o DiscreteSuffix
      [] info.device_type = "VirtualGpu" -> info.name \o VirtualSuffix
      [] info.device_type = "Cpu" -> info.name \o SoftwareSuffix
      [] info.device_type = "Other" -> info.name \o OtherSuffix

\* A variant of Skipped that lets the software rasterizers through.
SkippedOtherOnly(info) == info.device_type = "Other"

\* The adapters the loop skips.
Skipped(info) == info.device_type = "Other" \/ info.device_type = "Cpu"

\* One pass of the loop over adapters.iter().enumerate(): idx counts from 0.
PushGpu(infos, idx, info) ==
    IF Skipped(info) THEN infos
    ELSE Append(infos, [device_index |-> idx, gpu_name |-> gpu_name(info)])

RECURSIVE CollectGpus(_, _, _)
CollectGpus(infos, idx, all) ==
    IF idx >= Len(all) THEN infos
    ELSE CollectGpus(PushGpu(infos, idx, all[idx + 1]), idx + 1, all)

\* Vec::sort_by with device_index.cmp: a stable sort, ascending.
RECURSIVE InsertByDeviceIndex(_, _)
InsertByDeviceIndex(sorted, x) ==
    IF sorted = <<>> THEN <<x>>
    ELSE IF x.device_index < sorted[Len(sorted)].device_index
         THEN Append(InsertByDeviceIndex(SubSeq(sorted, 1, Len(sorted) - 1), x),
                     sorted[Len(sorted)])
         ELSE Append(sorted, x)

RECURSIVE SortByDeviceIndexFrom(_, _)
SortByDeviceIndexFrom(sorted, rest) ==
    IF rest = <<>> THEN sorted
    ELSE SortByDeviceIndexFrom(InsertByDeviceIndex(sorted, Head(rest)), Tail(rest))

\* A variant of sort_by_device_index with the comparison turned round.
RECURSIVE Reversed(_)
Reversed(seq) ==
    IF seq = <<>> THEN <<>> ELSE Append(Reversed(Tail(seq)), Head(seq))
sort_by_device_index_descending(infos) ==
    Reversed(SortByDeviceIndexFrom(<<>>, infos))

sort_by_device_index(infos) == SortByDeviceIndexFrom(<<>>, infos)

get_gpu_info(all) == sort_by_device_index(CollectGpus(<<>>, 0, all))

\* The adapters offered to the enumerator: two names, every device type.
AdapterNames == { <<"A">>, <<"B", "c">> }
AdapterInfos == [name : AdapterNames, device_type : DeviceTypes]
AdapterInputs == SeqsUpTo(AdapterInfos, MaxAdapters)

InitGpu ==
    /\ pc = "call"
    /\ adapters \in AdapterInputs
    /\ gpu_infos = None
    /\ supported = None /\ sys = None /\ events = <<>> /\ output_info = None
    /\ stdout = <<>> /\ exit_code = NoExit
    /\ unix_time = None /\ human_string = None
    /\ cpus = None /\ cpu_info_map = None

CallGetGpuInfo ==
    /\ pc = "call"
    /\ gpu_infos' = get_gpu_info(adapters)
    /\ pc' = "ret"
    /\ UNCHANGED <<adapters, mainVars, uptimeVars, cpuVars>>

NextGpu == CallGetGpuInfo

SpecGpu == InitGpu /\ [][NextGpu]_vars

----------------------------------------------------------------------------
(* Claims about get_gpu_info. *)

\* The 0-based positions of the adapters that are reported.
Reported == { i \in 0..(Len(adapters) - 1) :
                adapters[i + 1].device_type
                    \in {"IntegratedGpu", "DiscreteGpu", "VirtualGpu"} }

RecordsAt(i) == { j \in 1..Len(gpu_infos) : gpu_infos[j].device_index = i }

\* C5: no record for an adapter of type Cpu (software rasterizer) or Other
\* (unknown), exactly one for every other adapter; a record's device_index is
\* its adapter's position in the input and its name the adapter's name with
\* " (Integrated GPU)", " (Discrete GPU)" or " (Virtual GPU)" after it; no
\* adapters, or none reported, give the empty sequence.
C5_FilterAndLabel ==
    Returned =>
        /\ \A i \in 0..(Len(adapters) - 1) :
               Cardinality(RecordsAt(i)) = IF i \in Reported THEN 1 ELSE 0
        /\ Len(gpu_infos) = Cardinality(Reported)
        /\ \A j \in 1..Len(gpu_infos) :
            LET i == gpu_infos[j].device_index
                kind == adapters[i + 1].device_type
                label == CASE kind = "IntegratedGpu" ->
                                <<" ", "(">> \o <<"I","n","t","e","g","r","a","t","e","d">>
                                \o <<" ", "G", "P", "U", ")">>
                           [] kind = "DiscreteGpu" ->
                                <<" ", "(">> \o <<"D","i","s","c","r","e","t","e">>
                                \o <<" ", "G", "P", "U", ")">>
                           [] kind = "VirtualGpu" ->
                                <<" ", "(">> \o <<"V","i","r","t","u","a","l">>
                                \o <<" ", "G", "P", "U", ")">>
                           [] OTHER -> <<>>
            IN  /\ i \in Reported
                /\ gpu_infos[j].gpu_name = adapters[i + 1].name \o label
        /\ Reported = {} => gpu_infos = <<>>

\* A skipped adapter between two reported ones: the indices keep the gap.
C5_Witness ==
    /\ Returned
    /\ Len(adapters) = 3
    /\ adapters[2].device_type = "Cpu"
    /\ Len(gpu_infos) = 2
    /\ gpu_infos[1].device_index = 0
    /\ gpu_infos[2].device_index = 2
    /\ gpu_infos[2].gpu_name = <<"B", "c">> \o DiscreteSuffix

\* C6: the result is in ascending order of device_index, whatever the order
\* of the adapters.
C6_SortedByDeviceIndex ==
    Returned =>
        \A i, j \in 1..Len(gpu_infos) :
            i < j => gpu_infos[i].device_index < gpu_infos[j].device_index

\* Three reported adapters, the discrete one first and the integrated last.
C6_Witness ==
    /\ Returned
    /\ Len(gpu_infos) = 3
    /\ adapters[1].device_type = "DiscreteGpu"
    /\ adapters[3].device_type = "IntegratedGpu"

----------------------------------------------------------------------------
(* print_all_info *)

OsLabel == <<"O","S",":"," "," "," "," "," "," "," "," ">>
SerialLabel == <<"S","e","r","i","a","l",":"," "," "," "," ">>
KernelLabel == <<"K","e","r","n","e","l",":"," "," "," "," ">>
UptimeLabel == <<"U","p","t","i","m","e",":"," "," "," "," ">>
CpuLabel == <<"C","P","U",":"," "," "," "," "," "," "," ">>
CoresText == <<" ","c","o","r","e","s",","," ">>
AvgText == <<"%"," ","a","v","g",","," ">>
MhzText == <<" ","M","H","z"," ","(","m","a","x",")">>
GpuLabel == <<"G","P","U"," ">>
GpuSep == <<":"," "," "," ">>
MemoryLabel == <<"M","e","m","o","r","y",":"," "," "," "," ">>
MemorySuffix == <<" ","M","B"," ","u","s","e","d">>

\* format!("{:.2}", x) of an f64: two decimals, rounded to nearest, a tie to
\* the even neighbour (a tie is a value the f64 holds exactly).
Fixed2(x) ==
    LET q == (x.num * 100) \div x.den
        r == (x.num * 100) % x.den
        scaled == IF 2 * r > x.den \/ (2 * r = x.den /\ q % 2 = 1)
                  THEN q + 1 ELSE q
    IN  NatDigits(scaled \div 100) \o <<".">>
        \o PadLeft(NatDigits(scaled % 100), 2, "0")

cpu_line(cpu_brand, cpu_info) ==
    CpuLabel \o cpu_brand \o <<" ", "-", " ">> \o Display(cpu_info.num_cores)
    \o CoresText \o Fixed2(cpu_info.avg_usage) \o AvgText
    \o Fixed2(cpu_info.max_frequency_mhz) \o MhzText

gpu_line(gpu_info) ==
    GpuLabel \o PadLeft(Display(gpu_info.device_index), 3, ".") \o GpuSep
    \o gpu_info.gpu_name

\* The vec! of the six leading lines.
header_lines(info) ==
    << info.username \o <<"@">> \o info.hostname,
       Repeat(<<"-">>, Len(info.username) + Len(info.hostname) + 1),
       OsLabel \o info.os,
       SerialLabel \o info.serial_number,
       KernelLabel \o info.kernel,
       UptimeLabel \o convert_unix_to_human_string(info.uptime) >>

\* The loop over &output_info.cpu, which visits the map's keys in cpu_order.
cpu_lines(info, cpu_order) ==
    [i \in 1..Len(cpu_order) |-> cpu_line(cpu_order[i], info.cpu[cpu_order[i]])]

\* The loop over &output_info.gpu.
gpu_lines(info) == [i \in 1..Len(info.gpu) |-> gpu_line(info.gpu[i])]

memory_line(info) ==
    MemoryLabel \o Display(info.memory_used_mb) \o <<"/">>
    \o Display(info.memory_total_mb) \o MemorySuffix

\* A variant of output_info_vec that pushes the GPU lines before the CPU lines.
output_info_vec_gpu_first(info, cpu_order) ==
    header_lines(info) \o gpu_lines(info) \o cpu_lines(info, cpu_order)
    \o <<memory_line(info)>>

\* output_info_vec when the printing starts.
output_info_vec(info, cpu_order) ==
    header_lines(info) \o cpu_lines(info, cpu_order) \o gpu_lines(info)
    \o <<memory_line(info)>>

\* The first printing loop: every line after its logo row, or after
\* LOGO_WIDTH spaces once the logo rows are used up. idx counts from 0.
paired_rows(lines) ==
    [i \in 1..Len(lines) |->
        IF i - 1 < LOGO_HEIGHT THEN LOGO[i] \o lines[i]
        ELSE Repeat(<<" ">>, LOGO_WIDTH) \o lines[i]]

\* A variant of bare_rows without the second printing loop.
bare_rows_omitted(lines) == <<>>

\* The second printing loop: the logo rows no line was paired with.
bare_rows(lines) ==
    IF Len(lines) < LOGO_HEIGHT
    THEN [k \in 1..(LOGO_HEIGHT - Len(lines)) |-> LOGO[Len(lines) + k]]
    ELSE <<>>

\* Everything print_all_info writes: println!() writes the empty line.
printed_rows(lines) == <<<<>>>> \o paired_rows(lines) \o bare_rows(lines) \o <<<<>>>>

\* The orders in which a HashMap may be iterated: the sequences that hold
\* every key once.
IterationOrders(map) ==
    { order \in SeqsOfLen(DOMAIN map, Cardinality(DOMAIN map)) :
        \A k \in DOMAIN map : \E i \in 1..Len(order) : order[i] = k }

PrintAllInfo ==
    /\ pc = "print"
    /\ \E cpu_order \in IterationOrders(output_info.cpu) :
          stdout' = stdout \o printed_rows(output_info_vec(output_info, cpu_order))
    /\ events' = Append(events, "print_all_info")
    /\ pc' = "exit"
    /\ UNCHANGED <<supported, sys, output_info, exit_code,
                   uptimeVars, cpuVars, gpuVars>>

\* The reports offered to the composer: what get_cpu_info and get_gpu_info
\* return for up to MaxCpus cores and MaxAdapters adapters.
Text_al == <<"a", "l">>
Text_alice == <<"a", "l", "i", "c", "e">>
Text_box == <<"b", "o", "x">>
Text_unknown == <<"u", "n", "k", "n", "o", "w", "n">>
Text_TestOS == <<"T", "e", "s", "t", "O", "S">>
Text_SN123 == <<"S", "N", "1", "2", "3">>
Text_xxxxxxxxxx == <<"x", "x", "x", "x", "x", "x", "x", "x", "x", "x">>
Text_kernel == <<"1", ".", "0">>

ReportCpuSamples ==
    { [brand |-> <<"M", "x">>, cpu_usage |-> 25, frequency |-> 2400],
      [brand |-> <<"M", "x">>, cpu_usage |-> 100, frequency |-> 3000],
      [brand |-> <<"M", "X">>, cpu_usage |-> 100, frequency |-> 3000],
      [brand |-> <<"Q">>, cpu_usage |-> 25, frequency |-> 2400] }
ReportAdapterInfos ==
    [name : {<<"A">>}, device_type : {"IntegratedGpu", "DiscreteGpu", "Cpu"}]

Reports ==
    [ username : {Text_al, Text_alice},
      hostname : {Text_box, Text_unknown},
      os : {Text_TestOS},
      serial_number : {Text_SN123},
      kernel : {Text_kernel},
      uptime : {3725},
      cpu : { get_cpu_info(c) : c \in SeqsUpTo(ReportCpuSamples, MaxCpus) },
      gpu : { get_gpu_info(a) : a \in SeqsUpTo(ReportAdapterInfos, MaxAdapters) },
      memory_used_mb : {1024},
      memory_total_mb : {8192} ]

InitPrint ==
    /\ pc = "print"
    /\ output_info \in Reports
    /\ stdout = <<>>
    /\ supported = TRUE /\ sys = None /\ events = <<>> /\ exit_code = NoExit
    /\ unix_time = None /\ human_string = None
    /\ cpus = None /\ cpu_info_map = None
    /\ adapters = None /\ gpu_infos = None

NextPrint == PrintAllInfo

SpecPrint == InitPrint /\ [][NextPrint]_vars

----------------------------------------------------------------------------
(* Claims about print_all_info. *)

Printed == events # <<>> /\ events[Len(events)] = "print_all_info"

StartsWith(text, prefix) ==
    Len(text) >= Len(prefix) /\ SubSeq(text, 1, Len(prefix)) = prefix

\* The report as written: the rows between the first and the last.
ReportRows == SubSeq(stdout, 2, Len(stdout) - 1)

\* The composed lines, read back from the output: a row longer than the logo
\* is a line after LOGO_WIDTH characters of logo or of padding.
ComposedLines ==
    LET carries(row) == Len(row) > LOGO_WIDTH
        rows == SelectSeq(ReportRows, carries)
    IN  [i \in 1..Len(rows) |-> SubSeq(rows[i], LOGO_WIDTH + 1, Len(rows[i]))]

\* The device index a GPU line shows in its three-character field.
ShownIndex(line) ==
    LET isDigit(c) == c # "."
    IN  ParseNat(SelectSeq(SubSeq(line, 5, 7), isDigit))

\* C7: the composed lines are 6 + |cpu| + |gpu| + 1: user@host, a separator of
\* len(username) + len(hostname) + 1 dashes, OS, Serial, Kernel, Uptime, one
\* CPU line per group, one GPU line per record in ascending device_index,
\* and the Memory line last; no CPU line follows a GPU line.
C7_LineOrder ==
    Printed =>
        LET lines == ComposedLines
            nc == Cardinality(DOMAIN output_info.cpu)
            ng == Len(output_info.gpu)
            isCpu(i) == StartsWith(lines[i], <<"C", "P", "U", ":">>)
            isGpu(i) == StartsWith(lines[i], <<"G", "P", "U", " ">>)
        IN  /\ Len(lines) = 6 + nc + ng + 1
            /\ lines[1] = output_info.username \o <<"@">> \o output_info.hostname
            /\ Len(lines[2]) =
                   Len(output_info.username) + Len(output_info.hostname) + 1
            /\ \A j \in 1..Len(lines[2]) : lines[2][j] = "-"
            /\ StartsWith(lines[3], <<"O", "S", ":">>)
            /\ StartsWith(lines[4], <<"S", "e", "r", "i", "a", "l", ":">>)
            /\ StartsWith(lines[5], <<"K", "e", "r", "n", "e", "l", ":">>)
            /\ StartsWith(lines[6], <<"U", "p", "t", "i", "m", "e", ":">>)
            /\ \A i \in 1..Len(lines) : isCpu(i) <=> (7 <= i /\ i <= 6 + nc)
            /\ \A k \in DOMAIN output_info.cpu :
                   Cardinality({ i \in 7..(6 + nc) :
                       StartsWith(lines[i],
                           <<"C", "P", "U", ":">> \o Repeat(<<" ">>, 7) \o k
                           \o <<" ", "-", " ">>) }) = 1
            /\ \A i \in 1..Len(lines) :
                   isGpu(i) <=> (7 + nc <= i /\ i <= 6 + nc + ng)
            /\ \A g \in 1..ng :
                   ShownIndex(lines[6 + nc + g]) = output_info.gpu[g].device_index
            /\ \A g, h \in 1..ng :
                   g < h => ShownIndex(lines[6 + nc + g]) < ShownIndex(lines[6 + nc + h])
            /\ \A i, j \in 1..Len(lines) : (isGpu(i) /\ isCpu(j)) => j < i
            /\ StartsWith(lines[Len(lines)], <<"M", "e", "m", "o", "r", "y", ":">>)
            /\ \A i \in 1..Len(lines) :
                   StartsWith(lines[i], <<"M", "e", "m", "o", "r", "y", ":">>)
                       => i = Len(lines)

\* Two CPU groups and two GPUs whose indices have a gap, all printed.
C7_Witness ==
    /\ Printed
    /\ Cardinality(DOMAIN output_info.cpu) = 2
    /\ Len(output_info.gpu) = 2
    /\ output_info.gpu[1].device_index = 0
    /\ output_info.gpu[2].device_index = 2
    /\ Len(ComposedLines) = 11

\* C9: with n composed lines, LOGO_HEIGHT = 9 and LOGO_WIDTH = 32, line i
\* follows logo row i when i < 9 and 32 spaces when i >= 9; when n < 9 the
\* logo rows n..8 follow bare; max(n, 9) rows are written, between one empty
\* line before and one after.
C9_Rendering ==
    Printed =>
        \E cpu_order \in IterationOrders(output_info.cpu) :
            LET lines == output_info_vec(output_info, cpu_order)
                n == Len(lines)
                rows == IF n > 9 THEN n ELSE 9
                spaces32 == [j \in 1..32 |-> " "]
            IN  /\ Len(stdout) = rows + 2
                /\ stdout[1] = <<>>
                /\ stdout[rows + 2] = <<>>
                /\ \A i \in 0..(n - 1) :
                       /\ i < 9 => stdout[i + 2] = LOGO[i + 1] \o lines[i + 1]
                       /\ i >= 9 => stdout[i + 2] = spaces32 \o lines[i + 1]
                /\ \A i \in n..8 : stdout[i + 2] = LOGO[i + 1]
                /\ \A i \in 2..(rows + 1) : stdout[i] # <<>>

\* Eight lines: the last logo row is written bare.
C9_Witness ==
    /\ Printed
    /\ Len(ComposedLines) = 8
    /\ Len(stdout) = 11
    /\ stdout[10] = LOGO[9]

\* Twelve lines: the last three are written after the padding.
C9_WitnessPadded ==
    /\ Printed
    /\ Len(ComposedLines) = 12
    /\ Len(stdout) = 14
    /\ StartsWith(stdout[13], Repeat(<<" ">>, 32) \o <<"M", "e", "m", "o", "r", "y", ":">>)

----------------------------------------------------------------------------
(* main *)

UnsupportedMessage == <<"S","y","s","t","e","m"," ","n","o","t"," ","s","u","p","p","o","r","t","e","d","."," ","A","b","o","r","t","i","n","g",".">>

\* Bounds of the hosts main runs on.
MaxHostCpus == 2
MaxHostAdapters == 2

\* Result and Option values of the collaborators.
Ok(v) == [ok |-> TRUE, value |-> v]
Err == [ok |-> FALSE]

\* get_hostname: unwrap_or(String::from("unknown")).
get_hostname(result) == IF result.ok THEN result.value ELSE Text_unknown

\* get_serial_number: unwrap_or("xxxxxxxxxx".to_string()).
get_serial_number(option) == IF option.ok THEN option.value ELSE Text_xxxxxxxxxx

\* get_used_memory(&sys) / 1024 / 1024 and get_total_memory(&sys) / 1024 / 1024.
memory_mb(bytes) == (bytes \div 1024) \div 1024

\* The cores of a host as System::new_all() finds them: no usage measured yet.
HostCores == [brand : {<<"M", "x">>, <<"Q">>}, cpu_usage : {0}, frequency : {3000}]

Init ==
    /\ pc = "start"
    /\ supported \in BOOLEAN
    /\ sys = None
    /\ events = <<>>
    /\ output_info = None
    /\ stdout = <<>>
    /\ exit_code = NoExit
    /\ unix_time = None /\ human_string = None
    /\ cpus = None /\ cpu_info_map = None
    /\ adapters = None /\ gpu_infos = None

\* A variant of AbortUnsupported that returns ExitCode::from(0).
AbortUnsupportedWithZero ==
    /\ pc = "start"
    /\ ~supported
    /\ stdout' = Append(stdout, UnsupportedMessage)
    /\ exit_code' = <<0>>
    /\ pc' = "done"
    /\ UNCHANGED <<supported, sys, events, output_info,
                   uptimeVars, cpuVars, gpuVars>>

\* if !sysinfo::IS_SUPPORTED_SYSTEM { println!(...); return ExitCode::from(1); }
AbortUnsupported ==
    /\ pc = "start"
    /\ ~supported
    /\ stdout' = Append(stdout, UnsupportedMessage)
    /\ exit_code' = <<1>>
    /\ pc' = "done"
    /\ UNCHANGED <<supported, sys, events, output_info,
                   uptimeVars, cpuVars, gpuVars>>

\* let mut sys = System::new_all();
SystemNewAll ==
    /\ pc = "start"
    /\ supported
    /\ \E cores \in SeqsUpTo(HostCores, MaxHostCpus) :
          sys' = [cpus |-> cores, cpu_refreshed |-> FALSE,
                  used_memory |-> 1610612735, total_memory |-> 2147483647]
    /\ events' = Append(events, "System::new_all")
    /\ pc' = "sleep"
    /\ UNCHANGED <<supported, output_info, stdout, exit_code,
                   uptimeVars, cpuVars, gpuVars>>

\* A variant of Sleep that goes on without sleeping.
SleepSkipped ==
    /\ pc = "sleep"
    /\ pc' = "refresh"
    /\ UNCHANGED <<supported, sys, events, output_info, stdout, exit_code,
                   uptimeVars, cpuVars, gpuVars>>

\* std::thread::sleep(sysinfo::MINIMUM_CPU_UPDATE_INTERVAL);
Sleep ==
    /\ pc = "sleep"
    /\ events' = Append(events, "sleep")
    /\ pc' = "refresh"
    /\ UNCHANGED <<supported, sys, output_info, stdout, exit_code,
                   uptimeVars, cpuVars, gpuVars>>

\* sys.refresh_cpu_all(): every core gets the usage measured since new_all.
RefreshCpuAll ==
    /\ pc = "refresh"
    /\ \E usage \in [1..Len(sys.cpus) -> {25, 100}] :
          sys' = [sys EXCEPT
                    !.cpus = [i \in 1..Len(sys.cpus) |->
                                [sys.cpus[i] EXCEPT !.cpu_usage = usage[i]]],
                    !.cpu_refreshed = TRUE]
    /\ events' = Append(events, "refresh_cpu_all")
    /\ pc' = "build"
    /\ UNCHANGED <<supported, output_info, stdout, exit_code,
                   uptimeVars, cpuVars, gpuVars>>

\* The collaborators read while OutputInfo is built, in the order of its fields.
BuildEvents ==
    << "username", "hostname", "distro", "serial_number", "kernel_long_version",
       "uptime", "cpus", "enumerate_adapters", "used_memory", "total_memory" >>

\* let output_info = OutputInfo { ... };
BuildOutputInfo ==
    /\ pc = "build"
    /\ \E hostname_result \in {Ok(Text_box), Err},
          serial_option \in {Ok(Text_SN123), Err},
          uptime \in {59, 3725},
          enumerated \in SeqsUpTo(ReportAdapterInfos, MaxHostAdapters) :
          output_info' =
              [ username |-> Text_al,
                hostname |-> get_hostname(hostname_result),
                os |-> Text_TestOS,
                serial_number |-> get_serial_number(serial_option),
                kernel |-> Text_kernel,
                uptime |-> uptime,
                cpu |-> get_cpu_info(sys.cpus),
                gpu |-> get_gpu_info(enumerated),
                memory_used_mb |-> memory_mb(sys.used_memory),
                memory_total_mb |-> memory_mb(sys.total_memory) ]
    /\ events' = events \o BuildEvents
    /\ pc' = "print"
    /\ UNCHANGED <<supported, sys, stdout, exit_code,
                   uptimeVars, cpuVars, gpuVars>>

\* return ExitCode::from(0);
ExitSuccess ==
    /\ pc = "exit"
    /\ exit_code' = <<0>>
    /\ pc' = "done"
    /\ UNCHANGED <<supported, sys, events, output_info, stdout,
                   uptimeVars, cpuVars, gpuVars>>

Next ==
    \/ AbortUnsupported
    \/ SystemNewAll
    \/ Sleep
    \/ RefreshCpuAll
    \/ BuildOutputInfo
    \/ PrintAllInfo
    \/ ExitSuccess

Spec == Init /\ [][Next]_vars

----------------------------------------------------------------------------
(* Claims about main. *)

\* The positions of an event in events.
Positions(e) == { i \in 1..Len(events) : events[i] = e }
Happened(e) == Positions(e) # {}

\* Every occurrence of event a is before every occurrence of event b.
Before(a, b) == \A i \in Positions(a), j \in Positions(b) : i < j

\* C8: on an unsupported platform main exits with status 1, having queried
\* nothing and written one line and no report; otherwise it prints the
\* report and exits with status 0.  Status 1 never goes with a printed
\* report, status 0 never without one.
C8_ExitCodes ==
    /\ exit_code \in {NoExit, <<0>>, <<1>>}
    /\ ~supported => events = <<>>
    /\ exit_code = <<1>> =>
           /\ ~supported
           /\ stdout = <<UnsupportedMessage>>
           /\ ~Happened("print_all_info")
    /\ exit_code = <<0>> =>
           /\ supported
           /\ Happened("print_all_info")
           /\ Len(stdout) >= LOGO_HEIGHT + 2
           /\ \A i \in 1..Len(stdout) : stdout[i] # UnsupportedMessage
    /\ pc = "done" => exit_code = IF supported THEN <<0>> ELSE <<1>>
    /\ pc # "done" => exit_code = NoExit

\* main has exited with status 1.
C8_Witness ==
    /\ pc = "done"
    /\ ~supported
    /\ exit_code = <<1>>
    /\ Len(stdout) = 1

\* C10: the snapshot, then the settling delay, then the refresh of the CPU
\* usage, and only then the reading of the cores; usage is never read before
\* the delay is over; the report is printed once, after every fact is read.
C10_StartupOrder ==
    /\ Happened("cpus") =>
           /\ Happened("System::new_all") /\ Happened("sleep")
           /\ Happened("refresh_cpu_all")
           /\ sys.cpu_refreshed
    /\ Before("System::new_all", "sleep")
    /\ Before("sleep", "refresh_cpu_all")
    /\ Before("refresh_cpu_all", "cpus")
    /\ Happened("refresh_cpu_all") => Happened("sleep")
    /\ Happened("sleep") => Happened("System::new_all")
    /\ \A e \in {"System::new_all", "sleep", "refresh_cpu_all", "print_all_info"} :
           Cardinality(Positions(e)) <= 1
    /\ Happened("print_all_info") =>
           /\ \A i \in 1..Len(BuildEvents) : Happened(BuildEvents[i])
           /\ \A i \in 1..Len(BuildEvents) : Before(BuildEvents[i], "print_all_info")
    /\ (pc = "done" /\ supported) => Cardinality(Positions("print_all_info")) = 1

\* main has exited after a report on two cores whose usage was refreshed.
C10_Witness ==
    /\ pc = "done"
    /\ exit_code = <<0>>
    /\ Len(sys.cpus) = 2
    /\ sys.cpus[1].cpu_usage = 25
    /\ sys.cpus[2].cpu_usage = 100
    /\ Len(events) = 14

====
